---- MODULE Spec2Model ----
(***************************************************************************)
(* Model of streamlit_app.py: load_data, the two JSON field extractors     *)
(* parse_json_column / parse_unnamed_7, and the top-level script that      *)
(* derives columns and walks through the five display sections.            *)
(*                                                                         *)
(* Texts (CSV fields, cell strings) are sequences of lexical tokens; a     *)
(* token is a record [k, s].  Python values are tagged records [t, ...].   *)
(***************************************************************************)
EXTENDS Integers, Sequences, FiniteSets, TLC

VARIABLES
    file,      \* the input file "Data PM - case (1).csv": [state, header, lines]
    pc,        \* position of the script
    df,        \* the table bound to df (NoTable before load / when load_data returned None)
    df0,       \* history: the table as load_data returned it
    out,       \* the st.* calls made so far, in order
    exc,       \* the exception that left the script uncaught ("none" if none)
    value,     \* extractors alone: the cell handed to the extractors
    origin,    \* extractors alone (history): how that cell's text was written
    tb,        \* extractors alone: outcome of parse_json_column(value)
    ca         \* extractors alone: outcome of parse_unnamed_7(value)

vars == <<file, pc, df, df0, out, exc, value, origin, tb, ca>>

-----------------------------------------------------------------------------
(* Bounds *)

MaxKeys == 2        \* members of a generated JSON object
MaxRows == 2        \* data lines of a generated file

-----------------------------------------------------------------------------
(* Tokens and texts *)

P(s) == [k |-> "punct", s |-> s]
Lit(s) == [k |-> "literal", s |-> s]
Num(s) == [k |-> "number", s |-> s]
Str(s) == [k |-> "string", s |-> s]       \* a double-quoted JSON string literal
Word(s) == [k |-> "word", s |-> s]        \* bare characters, e.g. abc or 2024-01-05

NumVal(s) == CASE s = "1" -> 1 [] s = "10" -> 10 [] s = "-5" -> 0 - 5 [] OTHER -> 0

-----------------------------------------------------------------------------
(* Python values *)

PyNone == [t |-> "NoneType"]
PyNaN == [t |-> "float", nan |-> TRUE]
PyBool(b) == [t |-> "bool", b |-> b]
PyInt(n) == [t |-> "int", n |-> n]
PyStr(toks) == [t |-> "str", toks |-> toks]
PyList(items) == [t |-> "list", items |-> items]
PyDict(items) == [t |-> "dict", members |-> items]

\* no table: df before the load, and None
NoTable == [loaded |-> FALSE, columns |-> <<>>, rows |-> <<>>]

\* dict[key] = val: an existing key keeps its position and takes the new value
DictSet(members, key, val) ==
    IF \E i \in 1..Len(members) : members[i].key = key
    THEN [i \in 1..Len(members) |->
            IF members[i].key = key THEN [key |-> key, val |-> val] ELSE members[i]]
    ELSE Append(members, [key |-> key, val |-> val])

\* dict.get(key, default)
DictGet(d, key, default) ==
    IF \E i \in 1..Len(d.members) : d.members[i].key = key
    THEN d.members[CHOOSE i \in 1..Len(d.members) : d.members[i].key = key].val
    ELSE default

-----------------------------------------------------------------------------
(* json.loads: a recursive-descent decoder over the token sequence.        *)
(* Each parser returns [ok, val, next]: next is the index after the value. *)

Fail == [ok |-> FALSE, val |-> PyNone, next |-> 0]
Ok(v, n) == [ok |-> TRUE, val |-> v, next |-> n]

RECURSIVE ParseValue(_, _)
RECURSIVE ParseElems(_, _, _)
RECURSIVE ParseMembers(_, _, _)

\* after '[' value: zero or more ', value' then ']'
ParseElems(toks, i, acc) ==
    IF i > Len(toks) THEN Fail
    ELSE IF toks[i] = P("]") THEN Ok(PyList(acc), i + 1)
    ELSE IF toks[i] = P(",")
         THEN LET r == ParseValue(toks, i + 1)
              IN  IF r.ok THEN ParseElems(toks, r.next, Append(acc, r.val)) ELSE Fail
    ELSE Fail

\* at a member 'string : value', then ', member' or '}'
ParseMembers(toks, i, acc) ==
    IF i + 1 > Len(toks) THEN Fail
    ELSE IF toks[i].k = "string" /\ toks[i + 1] = P(":")
         THEN LET r == ParseValue(toks, i + 2)
              IN  IF ~r.ok \/ r.next > Len(toks) THEN Fail
                  ELSE LET acc2 == DictSet(acc, toks[i].s, r.val)
                       IN  IF toks[r.next] = P("}") THEN Ok(PyDict(acc2), r.next + 1)
                           ELSE IF toks[r.next] = P(",")
                                THEN ParseMembers(toks, r.next + 1, acc2)
                           ELSE Fail
    ELSE Fail

ParseValue(toks, i) ==
    IF i > Len(toks) THEN Fail
    ELSE LET tk == toks[i]
         IN  CASE tk = Lit("null") -> Ok(PyNone, i + 1)
               [] tk = Lit("true") -> Ok(PyBool(TRUE), i + 1)
               [] tk.k = "number" -> Ok(PyInt(NumVal(tk.s)), i + 1)
               [] tk.k = "string" -> Ok(PyStr(<<Word(tk.s)>>), i + 1)
               [] tk = P("[") ->
                    IF i + 1 <= Len(toks) /\ toks[i + 1] = P("]")
                    THEN Ok(PyList(<<>>), i + 2)
                    ELSE LET r == ParseValue(toks, i + 1)
                         IN  IF r.ok THEN ParseElems(toks, r.next, <<r.val>>) ELSE Fail
               [] tk = P("{") ->
                    IF i + 1 <= Len(toks) /\ toks[i + 1] = P("}")
                    THEN Ok(PyDict(<<>>), i + 2)
                    ELSE ParseMembers(toks, i + 1, <<>>)
               [] OTHER -> Fail

\* Outcome of a call: exc = "none" and the returned value, or the exception raised.
Returned(v) == [exc |-> "none", val |-> v]
Raised(e) == [exc |-> e, val |-> PyNone]

\* json.loads(value): TypeError unless value is a str; JSONDecodeError unless the
\* whole text is exactly one JSON value.
json_loads(v) ==
    IF v.t # "str" THEN Raised("TypeError")
    ELSE LET r == ParseValue(v.toks, 1)
         IN  IF r.ok /\ r.next = Len(v.toks) + 1 THEN Returned(r.val)
             ELSE Raised("JSONDecodeError")

\* a plausible slip: json_data.get(key) or default
get_or_default(json_data, key, default) ==
    IF json_data.t = "dict"
    THEN LET v == DictGet(json_data, key, default)
         IN  Returned(IF v = PyNone THEN default ELSE v)
    ELSE Raised("AttributeError")

\* json_data.get(key[, default]): only a dict has .get
get(json_data, key, default) ==
    IF json_data.t = "dict" THEN Returned(DictGet(json_data, key, default))
    ELSE Raised("AttributeError")

\* a plausible slip: AttributeError left out of the except clause
CaughtNoAttributeError == {"JSONDecodeError", "TypeError"}

\* the exceptions named by both except clauses
Caught == {"JSONDecodeError", "TypeError", "AttributeError"}

Unknown == PyStr(<<Word("Unknown")>>)

\* try: loads, get -- except Caught: return default
Extract(v, key, getDefault, default, caught) ==
    LET l == json_loads(v)
        g == IF l.exc = "none" THEN get(l.val, key, getDefault) ELSE l
    IN  IF g.exc \in caught THEN Returned(default) ELSE g

parse_json_column(v) == Extract(v, "total_balance", PyNone, PyNone, Caught)

parse_unnamed_7(v) == Extract(v, "card_acceptor", Unknown, Unknown, Caught)

-----------------------------------------------------------------------------
(* Generated cells.  Valid texts are written by Dumps (the inverse of      *)
(* json.loads on the values used here); invalid texts are invalid by       *)
(* construction: a proper prefix of a bracketed text, a valid text         *)
(* followed by one more token, or bare words.                              *)

Keys == {"total_balance", "card_acceptor", "other"}

FieldValues ==
    { PyNone, PyInt(1), PyBool(TRUE), Unknown, PyStr(<<Word("x")>>), PyList(<<>>),
      PyList(<<PyInt(1)>>), PyDict(<<>>),
      PyDict(<<[key |-> "total_balance", val |-> PyInt(1)]>>) }

RECURSIVE Dumps(_)
RECURSIVE DumpsElems(_, _)
RECURSIVE DumpsMembers(_, _)

DumpsElems(items, i) ==
    IF i > Len(items) THEN <<>>
    ELSE (IF i > 1 THEN <<P(",")>> ELSE <<>>) \o Dumps(items[i]) \o DumpsElems(items, i + 1)

DumpsMembers(members, i) ==
    IF i > Len(members) THEN <<>>
    ELSE (IF i > 1 THEN <<P(",")>> ELSE <<>>)
         \o <<Str(members[i].key), P(":")>> \o Dumps(members[i].val)
         \o DumpsMembers(members, i + 1)

Dumps(v) ==
    CASE v.t = "NoneType" -> <<Lit("null")>>
      [] v.t = "bool" -> <<Lit("true")>>
      [] v.t = "int" -> <<Num("1")>>
      [] v.t = "str" -> <<Str(v.toks[1].s)>>
      [] v.t = "list" -> <<P("[")>> \o DumpsElems(v.items, 1) \o <<P("]")>>
      [] v.t = "dict" -> <<P("{")>> \o DumpsMembers(v.members, 1) \o <<P("}")>>

Member == [key : Keys, val : FieldValues]

\* member lists as written in a text: a key may repeat
MemberLists == UNION { [1..n -> Member] : n \in 0..MaxKeys }

ObjectText(m) == <<P("{")>> \o DumpsMembers(m, 1) \o <<P("}")>>

ObjectTexts == { ObjectText(m) : m \in MemberLists }

NonObjectTexts == { Dumps(v) : v \in { x \in FieldValues : x.t # "dict" } }

Bracketed == { s \in ObjectTexts \cup NonObjectTexts : Len(s) >= 2 }

Extra == { P("}"), P("]"), P(","), Num("1"), Str("total_balance"), Word("abc") }

InvalidTexts ==
    UNION { { SubSeq(s, 1, n) : n \in 1..(Len(s) - 1) } : s \in { x \in Bracketed : Len(x) <= 5 } }
    \cup { Append(s, e) : s \in { x \in Bracketed : Len(x) <= 5 }, e \in Extra }
    \cup { <<>>, <<Word("not"), Word("json")>>, <<Word("abc")>>, <<Word("2024-01-05")>> }

NonTextCells == { PyNaN, PyNone, PyInt(1), PyInt(0 - 5), PyBool(TRUE) }

\* a generated cell with the way it was written
Origins ==
    { [cat |-> "object", members |-> m, cell |-> PyStr(ObjectText(m))] : m \in MemberLists }
    \cup { [cat |-> "nonobject", members |-> <<>>, cell |-> PyStr(s)] : s \in NonObjectTexts }
    \cup { [cat |-> "invalid", members |-> <<>>, cell |-> PyStr(s)] : s \in InvalidTexts }
    \cup { [cat |-> "nontext", members |-> <<>>, cell |-> c] : c \in NonTextCells }

\* what the text of member list m stores under key: the value of its last member
\* named key
HasKey(m, key) == \E i \in 1..Len(m) : m[i].key = key

Stored(m, key) ==
    m[CHOOSE i \in 1..Len(m) :
        /\ m[i].key = key
        /\ \A j \in (i + 1)..Len(m) : m[j].key # key].val

-----------------------------------------------------------------------------
(* Specification of the extractors alone *)

NotRun == [exc |-> "notrun", val |-> PyNone]

InitExtract ==
    /\ origin \in Origins
    /\ value = origin.cell
    /\ tb = NotRun
    /\ ca = NotRun
    /\ file = [state |-> "missing", header |-> <<>>, lines |-> <<>>] /\ pc = "extract" /\ df = NoTable /\ df0 = NoTable
    /\ out = <<>> /\ exc = "none"

ApplyParseJsonColumn ==
    /\ pc = "extract" /\ tb = NotRun
    /\ tb' = parse_json_column(value)
    /\ UNCHANGED <<file, pc, df, df0, out, exc, value, origin, ca>>

ApplyParseUnnamed7 ==
    /\ pc = "extract" /\ ca = NotRun
    /\ ca' = parse_unnamed_7(value)
    /\ UNCHANGED <<file, pc, df, df0, out, exc, value, origin, tb>>

NextExtract == ApplyParseJsonColumn \/ ApplyParseUnnamed7

SpecExtract == InitExtract /\ [][NextExtract]_vars

-----------------------------------------------------------------------------
(* Column names.  A name is the sequence of the text fragments it is made  *)
(* of: 'AMOUNT' is <<"AMOUNT">>, 'Unnamed: 7' is <<"Unnamed: ", "7">> and  *)
(* 'AMOUNT.1' is <<"AMOUNT", ".", "1">>.                                   *)

Digit(i) ==
    CASE i = 0 -> "0" [] i = 1 -> "1" [] i = 2 -> "2" [] i = 3 -> "3" [] i = 4 -> "4"
      [] i = 5 -> "5" [] i = 6 -> "6" [] i = 7 -> "7" [] i = 8 -> "8" [] i = 9 -> "9"

Col(s) == <<s>>

AMOUNT == Col("AMOUNT")
CURRENCY_CODE == Col("CURRENCY_CODE")
BOOKING_DATE == Col("BOOKING_DATE")
POST_TRANSACTION_ACCOUNT_BALANCES == Col("POST_TRANSACTION_ACCOUNT_BALANCES")
Unnamed_7 == <<"Unnamed: ", "7">>
total_balance == Col("total_balance")
card_acceptor == Col("card_acceptor")
Amount_Type == Col("Amount_Type")

-----------------------------------------------------------------------------
(* pd.read_csv(..., on_bad_lines='skip', engine='python')                  *)
(* The file is given as already split into fields: header is the sequence  *)
(* of the header line's field texts ("" for an empty field), lines the     *)
(* data lines, each a sequence of fields, each field a token sequence      *)
(* (<<>> for an empty field).                                              *)

\* a plausible slip: repeated header texts left as they are
ColumnName_NoDedup(header, i) ==
    IF header[i] = "" THEN <<"Unnamed: ", Digit(i - 1)>> ELSE Col(header[i])

\* the name of header field i (1-based): an empty field is named after its
\* 0-based position, a repeated text gets the count of its earlier occurrences
ColumnName(header, i) ==
    IF header[i] = "" THEN <<"Unnamed: ", Digit(i - 1)>>
    ELSE LET earlier == Cardinality({ j \in 1..(i - 1) : header[j] = header[i] })
         IN  IF earlier = 0 THEN Col(header[i])
             ELSE <<header[i], ".", Digit(earlier)>>

ColumnNames(header) == [i \in 1..Len(header) |-> ColumnName(header, i)]

\* skip_blank_lines: a line holding one empty field is no data line
NonBlank(line) == Len(line) > 1 \/ line[1] # <<>>

RECURSIVE Ascending(_, _, _)
\* the members of S among i..n, in ascending order
Ascending(S, i, n) ==
    IF i > n THEN <<>>
    ELSE (IF i \in S THEN <<i>> ELSE <<>>) \o Ascending(S, i + 1, n)

\* a line longer than the expected width is a bad line: on_bad_lines='skip'
\* drops it.  A shorter line is no bad line.
IsBadLine(line, width) == Len(line) > width

\* a kept line brought to the expected width: missing fields are empty
Pad(line, width) == [j \in 1..width |-> IF j <= Len(line) THEN line[j] ELSE <<>>]

IsNumber(field) == Len(field) = 1 /\ field[1].k = "number"

\* type inference of one column: numbers when every non-empty field is a number
Infer(fields, j) ==
    LET numeric == \A i \in 1..Len(fields) : fields[i][j] = <<>> \/ IsNumber(fields[i][j])
    IN  [i \in 1..Len(fields) |->
            IF fields[i][j] = <<>> THEN PyNaN
            ELSE IF numeric THEN PyInt(NumVal(fields[i][j][1].s))
            ELSE PyStr(fields[i][j])]

\* the table read from a readable file with a header line
ReadTable(f) ==
    LET columns == ColumnNames(f.header)
        ncols == Len(columns)
        n == Len(f.lines)
        data == Ascending({ i \in 1..n : NonBlank(f.lines[i]) }, 1, n)
        \* a first data line longer than the header makes its leading fields the index
        implicit == IF data # <<>> /\ Len(f.lines[data[1]]) > ncols
                    THEN Len(f.lines[data[1]]) - ncols ELSE 0
        width == ncols + implicit
        kept == Ascending({ i \in 1..n : NonBlank(f.lines[i]) /\ ~IsBadLine(f.lines[i], width) },
                          1, n)
        fields == [i \in 1..Len(kept) |-> Pad(f.lines[kept[i]], width)]
        cols == [j \in 1..ncols |-> Infer(fields, implicit + j)]
    IN  [loaded |-> TRUE,
         columns |-> columns,
         rows |-> [i \in 1..Len(kept) |->
                     [line |-> kept[i], cells |-> [j \in 1..ncols |-> cols[j][i]]]]]

\* what pd.read_csv does with the file
read_csv(f) ==
    CASE f.state = "missing" -> [exc |-> "FileNotFoundError", table |-> NoTable]
      [] f.state = "unreadable" -> [exc |-> "PermissionError", table |-> NoTable]
      [] f.state = "undecodable" -> [exc |-> "UnicodeDecodeError", table |-> NoTable]
      [] f.state = "empty" -> [exc |-> "EmptyDataError", table |-> NoTable]
      [] f.state = "unparseable" -> [exc |-> "ParserError", table |-> NoTable]
      [] f.state = "ok" -> [exc |-> "none", table |-> ReadTable(f)]

\* a plausible slip: only the parser's error handled
LoadHandlers_ParserOnly == {"ParserError"}

\* the except clauses of load_data
LoadHandlers == {"FileNotFoundError", "ParserError"}

Event(sec, kind, msg) == [sec |-> sec, kind |-> kind, msg |-> msg]

\* load_data(): [exc, table, shown]
load_data(f) ==
    LET r == read_csv(f)
    IN  IF r.exc = "none" THEN [exc |-> "none", table |-> r.table, shown |-> <<>>]
        ELSE IF r.exc \in LoadHandlers
        THEN [exc |-> "none", table |-> NoTable,
              shown |-> <<Event(0, "error",
                                IF r.exc = "FileNotFoundError" THEN "CSV file not found."
                                ELSE "ParserError")>>]
        ELSE [exc |-> r.exc, table |-> NoTable, shown |-> <<>>]

-----------------------------------------------------------------------------
(* The table (a DataFrame): column names and rows; a row keeps the number  *)
(* of the data line it was read from (history, not visible to the script). *)

HasCol(t, name) == \E j \in 1..Len(t.columns) : t.columns[j] = name

ColIdx(t, name) == CHOOSE j \in 1..Len(t.columns) : t.columns[j] = name

\* df[name]
Column(t, name) == [i \in 1..Len(t.rows) |-> t.rows[i].cells[ColIdx(t, name)]]

\* a plausible slip: the values aligned from the wrong end
SetColumn_Reversed(t, name, vals) ==
    LET n == Len(t.rows)
    IN  IF HasCol(t, name)
        THEN [t EXCEPT !.rows = [i \in 1..n |->
                    [t.rows[i] EXCEPT !.cells[ColIdx(t, name)] = vals[n + 1 - i]]]]
        ELSE [t EXCEPT !.columns = Append(t.columns, name),
                       !.rows = [i \in 1..n |->
                    [t.rows[i] EXCEPT !.cells = Append(t.rows[i].cells, vals[n + 1 - i])]]]

\* df[name] = vals: an existing column is overwritten, a new one is appended
SetColumn(t, name, vals) ==
    IF HasCol(t, name)
    THEN [t EXCEPT !.rows = [i \in 1..Len(t.rows) |->
                [t.rows[i] EXCEPT !.cells[ColIdx(t, name)] = vals[i]]]]
    ELSE [t EXCEPT !.columns = Append(t.columns, name),
                   !.rows = [i \in 1..Len(t.rows) |->
                [t.rows[i] EXCEPT !.cells = Append(t.rows[i].cells, vals[i])]]]

\* df[...].apply(parse_json_column): the outcome on every cell, in row order
apply_parse_json_column(col) == [i \in 1..Len(col) |-> parse_json_column(col[i])]

\* df[...].apply(parse_unnamed_7)
apply_parse_unnamed_7(col) == [i \in 1..Len(col) |-> parse_unnamed_7(col[i])]

AnyRaised(outcomes) == \E i \in 1..Len(outcomes) : outcomes[i].exc # "none"

FirstRaised(outcomes) ==
    outcomes[CHOOSE i \in 1..Len(outcomes) :
        /\ outcomes[i].exc # "none"
        /\ \A j \in 1..(i - 1) : outcomes[j].exc = "none"].exc

Values(outcomes) == [i \in 1..Len(outcomes) |-> outcomes[i].val]

\* Series.value_counts() hashes every value: a list or a dict cannot be hashed
Unhashable(v) == v.t \in {"list", "dict"}

Dates == {"2024-01-05", "2024-01-06"}

\* pd.to_datetime on one cell: a date text and a number convert, a missing value
\* becomes NaT, any other text raises
to_datetime(v) ==
    CASE v.t = "str" ->
            IF Len(v.toks) = 1 /\ v.toks[1].k = "word" /\ v.toks[1].s \in Dates
            THEN Returned([t |-> "Timestamp", date |-> v.toks[1].s])
            ELSE Raised("ValueError")
      [] v.t = "float" -> Returned([t |-> "NaT"])
      [] v.t = "int" -> Returned([t |-> "Timestamp", ns |-> v.n])

\* pd.to_datetime(df['BOOKING_DATE'])
to_datetime_column(col) == [i \in 1..Len(col) |-> to_datetime(col[i])]

Debit == PyStr(<<Word("Debit (Negative)")>>)
Credit == PyStr(<<Word("Credit (Positive)")>>)

\* lambda x: 'Debit (Negative)' if x < 0 else 'Credit (Positive)', on a number
\* (NaN < 0 is False)
AmountType(x) ==
    CASE x.t = "int" -> IF x.n < 0 THEN Debit ELSE Credit
      [] x.t = "float" -> Credit

\* df['AMOUNT'].apply(lambda ...)
apply_AmountType(col) == [i \in 1..Len(col) |-> AmountType(col[i])]

-----------------------------------------------------------------------------
(* The script *)

Show(events) == out' = out \o events

\* line 45: df = load_data(); line 47: if df is not None
Load ==
    /\ pc = "load"
    /\ LET r == load_data(file)
       IN  /\ Show(r.shown)
           /\ IF r.exc # "none"
              THEN /\ exc' = r.exc /\ pc' = "raised"
                   /\ UNCHANGED <<df, df0>>
              ELSE /\ df' = r.table /\ df0' = r.table
                   /\ pc' = IF r.table.loaded THEN "derive_total_balance" ELSE "no_data"
                   /\ UNCHANGED exc
    /\ UNCHANGED <<file, value, origin, tb, ca>>

\* lines 198-199
NoData ==
    /\ pc = "no_data"
    /\ Show(<<Event(0, "error", "No data loaded.")>>)
    /\ pc' = "done"
    /\ UNCHANGED <<file, df, df0, exc, value, origin, tb, ca>>

\* lines 49-50
DeriveTotalBalance ==
    /\ pc = "derive_total_balance"
    /\ IF HasCol(df, POST_TRANSACTION_ACCOUNT_BALANCES)
       THEN LET r == apply_parse_json_column(Column(df, POST_TRANSACTION_ACCOUNT_BALANCES))
            IN  IF AnyRaised(r)
                THEN exc' = FirstRaised(r) /\ pc' = "raised" /\ UNCHANGED df
                ELSE /\ df' = SetColumn(df, total_balance, Values(r))
                     /\ pc' = "derive_card_acceptor" /\ UNCHANGED exc
       ELSE pc' = "derive_card_acceptor" /\ UNCHANGED <<df, exc>>
    /\ UNCHANGED <<file, df0, out, value, origin, tb, ca>>

\* lines 53-57: the column is assigned, then value_counts() is printed
DeriveCardAcceptor ==
    /\ pc = "derive_card_acceptor"
    /\ IF HasCol(df, Unnamed_7)
       THEN LET r == apply_parse_unnamed_7(Column(df, Unnamed_7))
            IN  IF AnyRaised(r)
                THEN exc' = FirstRaised(r) /\ pc' = "raised" /\ UNCHANGED df
                ELSE /\ df' = SetColumn(df, card_acceptor, Values(r))
                     /\ IF \E i \in 1..Len(r) : Unhashable(r[i].val)
                        THEN exc' = "TypeError" /\ pc' = "raised"
                        ELSE pc' = "preview" /\ UNCHANGED exc
       ELSE pc' = "preview" /\ UNCHANGED <<df, exc>>
    /\ UNCHANGED <<file, df0, out, value, origin, tb, ca>>

\* lines 60-68
Preview ==
    /\ pc = "preview"
    /\ Show(<<Event(0, "subheader", "Data Preview"), Event(0, "dataframe", "df.head()"),
              Event(0, "write", "---")>>)
    /\ pc' = "section1"
    /\ UNCHANGED <<file, df, df0, exc, value, origin, tb, ca>>

HasAll(t, names) == \A c \in names : HasCol(t, c)

Needs(sec) ==
    CASE sec = 1 -> {AMOUNT}
      [] sec = 2 -> {CURRENCY_CODE, AMOUNT}
      [] sec = 3 -> {AMOUNT, total_balance}
      [] sec = 4 -> {AMOUNT, BOOKING_DATE}
      [] sec = 5 -> {AMOUNT}

Chart(sec) == <<Event(sec, "pyplot", "fig"), Event(sec, "markdown", "Insight")>>
Warning(sec) == <<Event(sec, "warning", "not found")>>
Rule == <<Event(0, "write", "---")>>

\* the sections that only plot: subheader, then the chart or the warning, then a rule
Plot(sec, next) ==
    /\ Show(<<Event(sec, "subheader", "title")>>
            \o (IF HasAll(df, Needs(sec)) THEN Chart(sec) ELSE Warning(sec))
            \o Rule)
    /\ pc' = next
    /\ UNCHANGED <<file, df, df0, exc, value, origin, tb, ca>>

\* lines 73-90
Section1 == pc = "section1" /\ Plot(1, "section2")

\* lines 95-111
Section2 == pc = "section2" /\ Plot(2, "section3")

\* lines 117-133
Section3 == pc = "section3" /\ Plot(3, "section4")

\* a plausible slip: the conversion outside the try block
Section4_NoTry ==
    /\ pc = "section4"
    /\ IF HasAll(df, Needs(4))
       THEN LET r == to_datetime_column(Column(df, BOOKING_DATE))
            IN  IF AnyRaised(r)
                THEN /\ Show(<<Event(4, "subheader", "title")>>)
                     /\ exc' = FirstRaised(r) /\ pc' = "raised"
                     /\ UNCHANGED df
                ELSE /\ df' = SetColumn(df, BOOKING_DATE, Values(r))
                     /\ Show(<<Event(4, "subheader", "title")>> \o Chart(4))
                     /\ pc' = "section5" /\ UNCHANGED exc
       ELSE /\ Show(<<Event(4, "subheader", "title")>> \o Warning(4))
            /\ pc' = "section5" /\ UNCHANGED <<df, exc>>
    /\ UNCHANGED <<file, df0, value, origin, tb, ca>>

\* lines 138-161: df['BOOKING_DATE'] is assigned the converted column before the
\* copy is taken; whatever the try block raises is reported by st.error.  Whether
\* set_index / resample / plot raise on the converted data is the libraries'
\* business: both outcomes are possible here.
Section4 ==
    /\ pc = "section4"
    /\ IF HasAll(df, Needs(4))
       THEN LET r == to_datetime_column(Column(df, BOOKING_DATE))
            IN  IF AnyRaised(r)
                THEN /\ Show(<<Event(4, "subheader", "title"), Event(4, "error", FirstRaised(r))>>)
                     /\ UNCHANGED df
                ELSE /\ df' = SetColumn(df, BOOKING_DATE, Values(r))
                     /\ \E plotted \in BOOLEAN :
                            Show(<<Event(4, "subheader", "title")>>
                                 \o (IF plotted THEN Chart(4)
                                     ELSE <<Event(4, "error", "plotting")>>))
       ELSE Show(<<Event(4, "subheader", "title")>> \o Warning(4)) /\ UNCHANGED df
    /\ pc' = "section5"
    /\ UNCHANGED <<file, df0, exc, value, origin, tb, ca>>

\* lines 166-196
Section5 ==
    /\ pc = "section5"
    /\ IF HasAll(df, Needs(5))
       THEN /\ df' = SetColumn(df, Amount_Type, apply_AmountType(Column(df, AMOUNT)))
            /\ Show(<<Event(5, "subheader", "title"),
                      Event(5, "dataframe", "negative_amount_stats"),
                      Event(5, "dataframe", "overall_amount_stats")>> \o Chart(5))
       ELSE Show(<<Event(5, "subheader", "title")>> \o Warning(5)) /\ UNCHANGED df
    /\ pc' = "done"
    /\ UNCHANGED <<file, df0, exc, value, origin, tb, ca>>

-----------------------------------------------------------------------------
(* Generated files *)

MaxCols == 2        \* header fields of a generated file (loading alone)
MaxWidth == 3       \* fields of a generated data line (loading alone)

SeqsUpTo(S, n) == UNION { [1..k -> S] : k \in 0..n }

Failed(state) == [state |-> state, header |-> <<>>, lines |-> <<>>]

FailedFiles ==
    { Failed(st) : st \in {"missing", "unreadable", "undecodable", "empty", "unparseable"} }

\* loading alone: any short header over three texts, lines of any width whose
\* fields are all the same number, all the same word, or a blank line
HeaderTexts == {"A", "B", ""}

LoadLines ==
    { [j \in 1..w |-> fill] : w \in 1..MaxWidth, fill \in {<<Num("1")>>, <<Word("x")>>} }
    \cup { <<<<>>>> }

LoadFiles ==
    FailedFiles
    \cup { [state |-> "ok", header |-> h, lines |-> l] :
            h \in SeqsUpTo(HeaderTexts, MaxCols) \ {<<>>}, l \in SeqsUpTo(LoadLines, MaxRows) }

\* the whole script: an eight-field header in which each of the five source
\* columns is there or replaced by another name (the eighth field is empty, so its
\* column is 'Unnamed: 7', or it has a name)
Sources == {"AMOUNT", "CURRENCY_CODE", "BOOKING_DATE", "POST_TRANSACTION_ACCOUNT_BALANCES", ""}

HeaderWith(S) ==
    << IF "AMOUNT" \in S THEN "AMOUNT" ELSE "COL_0",
       IF "CURRENCY_CODE" \in S THEN "CURRENCY_CODE" ELSE "COL_1",
       IF "BOOKING_DATE" \in S THEN "BOOKING_DATE" ELSE "COL_2",
       "MCC",
       IF "POST_TRANSACTION_ACCOUNT_BALANCES" \in S
       THEN "POST_TRANSACTION_ACCOUNT_BALANCES" ELSE "COL_4",
       "ACCOUNT_ID",
       "STATE",
       IF "" \in S THEN "" ELSE "NOTE" >>

Json(v) == Dumps(v)
Obj1(key, val) == PyDict(<<[key |-> key, val |-> val]>>)
SGD == <<Word("SGD")>>
W(s) == <<Word(s)>>

\* amount, currency, date, MCC, balances, account, state, eighth field; the amount
\* is a number or empty, and the last line is a short one
RunLines ==
    { << <<Num("10")>>, SGD, W("2024-01-05"), <<Num("1")>>,
         Json(Obj1("total_balance", PyInt(1))), W("a"), W("s"),
         Json(Obj1("card_acceptor", PyStr(W("x")))) >>,
      << <<Num("-5")>>, SGD, W("2024-01-06"), <<Num("1")>>,
         Json(Obj1("total_balance", PyNone)), W("a"), W("s"),
         Json(Obj1("card_acceptor", Unknown)) >>,
      << <<Num("10")>>, SGD, W("someday"), <<Num("1")>>,
         <<Word("not"), Word("json")>>, W("a"), W("s"), <<P("{")>> >>,
      << <<Num("-5")>>, SGD, W("2024-01-05"), <<Num("1")>>,
         Json(PyDict(<<>>)), W("a"), W("s"),
         Json(Obj1("card_acceptor", Obj1("other", PyInt(1)))) >>,
      << <<>>, SGD, W("2024-01-05"), <<Num("1")>>,
         <<Num("1")>>, W("a"), W("s"), Json(PyList(<<>>)) >>,
      << <<Num("10")>>, SGD >> }

RunFiles ==
    FailedFiles
    \cup { [state |-> "ok", header |-> HeaderWith(S), lines |-> l] :
            S \in SUBSET Sources, l \in SeqsUpTo(RunLines, MaxRows) }

NoOrigin == [cat |-> "none", members |-> <<>>, cell |-> PyNone]

InitScript(files) ==
    /\ file \in files
    /\ pc = "load"
    /\ df = NoTable /\ df0 = NoTable
    /\ out = <<>> /\ exc = "none"
    /\ value = PyNone /\ origin = NoOrigin /\ tb = NotRun /\ ca = NotRun

Init == InitScript(RunFiles)

Next ==
    \/ Load
    \/ NoData
    \/ DeriveTotalBalance
    \/ DeriveCardAcceptor
    \/ Preview
    \/ Section1
    \/ Section2
    \/ Section3
    \/ Section4
    \/ Section5

Spec == Init /\ [][Next]_vars

\* load_data alone, on files of any shape
InitLoad == InitScript(LoadFiles)

SpecLoad == InitLoad /\ [][Load]_vars

-----------------------------------------------------------------------------
(* C1, C2: the extractors on single cells *)

\* C1: a cell whose text decodes to a JSON object holding the target field yields
\* exactly the value stored under that field (a null, or a value equal to the
\* default, included), never the default in its place.
C1_ExtractYieldsStoredValue ==
    origin.cat = "object" =>
        /\ (HasKey(origin.members, "total_balance") /\ tb # NotRun)
                => tb = Returned(Stored(origin.members, "total_balance"))
        /\ (HasKey(origin.members, "card_acceptor") /\ ca # NotRun)
                => ca = Returned(Stored(origin.members, "card_acceptor"))

\* the object {"card_acceptor": null, "total_balance": "Unknown"}: null is returned
\* for card_acceptor, not "Unknown"
C1_Witness ==
    /\ value = PyStr(ObjectText(<<[key |-> "card_acceptor", val |-> PyNone],
                                  [key |-> "total_balance", val |-> Unknown]>>))
    /\ ca = Returned(PyNone)
    /\ tb = Returned(Unknown)

Defaults(key) ==
    \/ origin.cat \in {"nontext", "invalid", "nonobject"}
    \/ origin.cat = "object" /\ ~HasKey(origin.members, key)

\* C2: a missing cell, a non-text scalar, a text that is not JSON, JSON that is
\* not an object, and an object without the field all yield exactly the default,
\* and no exception leaves the extractor.
C2_FallbackToDefault ==
    /\ Defaults("total_balance") => tb \in {NotRun, Returned(PyNone)}
    /\ Defaults("card_acceptor") => ca \in {NotRun, Returned(Unknown)}

\* the bare number 1 is valid JSON but has no .get
C2_Witness ==
    /\ value = PyStr(<<Num("1")>>)
    /\ tb = Returned(PyNone)
    /\ ca = Returned(Unknown)

-----------------------------------------------------------------------------
(* C3, C5, C8, C9, C10: the script; C4, C6, C7: load_data alone *)

Shown(sec, kind) == \E k \in 1..Len(out) : out[k].sec = sec /\ out[k].kind = kind

NotFound == Event(0, "error", "CSV file not found.")
NoDataLoaded == Event(0, "error", "No data loaded.")

\* C3: with no input file nothing is raised, the not-found diagnostic is shown,
\* load_data returns no table, no derived column or section is run, and the run
\* ends after showing 'No data loaded'.
C3_MissingFileEndsInNoData ==
    file.state = "missing" =>
        /\ exc = "none" /\ df = NoTable
        /\ pc \in {"load", "no_data", "done"}
        /\ pc = "load" => ENABLED Load
        /\ pc = "no_data" => out = <<NotFound>> /\ ENABLED NoData
        /\ pc = "done" => out = <<NotFound, NoDataLoaded>>

C3_Witness == file.state = "missing" /\ pc = "done" /\ out = <<NotFound, NoDataLoaded>>

\* C4: every total load failure is recovered inside load_data: a diagnostic is
\* shown, no table is returned, the run goes to the 'no data' state and no
\* exception leaves load_data.
C4_EveryLoadFailureRecovered ==
    (file.state # "ok" /\ pc # "load") =>
        /\ exc = "none"
        /\ pc \in {"no_data", "done"}
        /\ Len(out) >= 1 /\ out[1].kind = "error"

\* the source columns a section needs, in terms of the file's header
HeaderHas(text) == \E j \in 1..Len(file.header) : file.header[j] = text

SourcesPresent(sec) ==
    CASE sec = 1 -> HeaderHas("AMOUNT")
      [] sec = 2 -> HeaderHas("AMOUNT") /\ HeaderHas("CURRENCY_CODE")
      [] sec = 3 -> HeaderHas("AMOUNT") /\ HeaderHas("POST_TRANSACTION_ACCOUNT_BALANCES")
      [] sec = 4 -> HeaderHas("AMOUNT") /\ HeaderHas("BOOKING_DATE")
      [] sec = 5 -> HeaderHas("AMOUNT")

Subheaders == SelectSeq(out, LAMBDA e : e.kind = "subheader" /\ e.sec > 0)

\* C5: whatever source columns a loaded table has, the run gets through all five
\* sections in order, and a section shows its chart exactly when the columns it
\* needs are there and a warning otherwise.
C5_SectionsFollowColumns ==
    df0.loaded =>
        /\ pc # "raised"
        /\ \A k \in 1..Len(Subheaders) : Subheaders[k].sec = k
        /\ pc = "done" =>
            /\ Len(Subheaders) = 5
            /\ \A sec \in 1..5 :
                /\ Shown(sec, "pyplot") <=> SourcesPresent(sec)
                /\ Shown(sec, "warning") <=> ~SourcesPresent(sec)

\* data line i (not a blank line) has as many fields as the header
Conforms(i) == NonBlank(file.lines[i]) /\ Len(file.lines[i]) = Len(file.header)

\* C6: the table holds exactly the data lines with as many fields as the header,
\* in file order: a line with more or with fewer fields is skipped, no other is.
C6_ExactlyConformingRows ==
    df0.loaded =>
        /\ \A i \in 1..Len(file.lines) :
                Conforms(i) <=> \E r \in 1..Len(df0.rows) : df0.rows[r].line = i
        /\ \A r, q \in 1..Len(df0.rows) : r < q => df0.rows[r].line < df0.rows[q].line

\* C7 as stated: the column names are the header's field texts, verbatim.
C7_NamesVerbatim ==
    df0.loaded => df0.columns = [i \in 1..Len(file.header) |-> Col(file.header[i])]

Repeats(i) == \E j \in 1..(i - 1) : file.header[j] = file.header[i]

\* C7 amended: one column per header field, in order, named by the field's text
\* verbatim unless the field is empty (then 'Unnamed: <0-based position>') or
\* repeats an earlier field (then the text with '.<number of earlier
\* occurrences>' appended); the names are pairwise distinct.
C7_NamesVerbatimUnlessEmptyOrRepeated ==
    df0.loaded =>
        /\ Len(df0.columns) = Len(file.header)
        /\ \A i \in 1..Len(file.header) :
            /\ (file.header[i] # "" /\ ~Repeats(i)) => df0.columns[i] = <<file.header[i]>>
            /\ file.header[i] = "" => df0.columns[i] = <<"Unnamed: ", Digit(i - 1)>>
            /\ (file.header[i] # "" /\ Repeats(i)) =>
                    /\ Len(df0.columns[i]) = 3
                    /\ df0.columns[i][1] = file.header[i] /\ df0.columns[i][2] = "."
        /\ \A i, j \in 1..Len(df0.columns) : i # j => df0.columns[i] # df0.columns[j]

C7_Witness ==
    /\ file.header = <<"A", "A">>
    /\ df0.loaded
    /\ df0.columns = <<Col("A"), <<"A", ".", "1">>>>

\* C8: once loaded, every loaded column is still there under its name and holds
\* the values read from the file; only derived columns are added.
C8_LoadedColumnsUntouched ==
    df0.loaded =>
        /\ Len(df.columns) >= Len(df0.columns)
        /\ \A j \in 1..Len(df0.columns) :
            /\ df.columns[j] = df0.columns[j]
            /\ \A i \in 1..Len(df0.rows) : df.rows[i].cells[j] = df0.rows[i].cells[j]

AfterTotalBalance ==
    {"derive_card_acceptor", "preview", "section1", "section2", "section3", "section4",
     "section5", "done"}

AfterCardAcceptor == AfterTotalBalance \ {"derive_card_acceptor"}

\* what the extractor makes of the text of data line n, field j (1-based)
Expect(n, j, key) ==
    LET field == IF j <= Len(file.lines[n]) THEN file.lines[n][j] ELSE <<>>
        r == ParseValue(field, 1)
    IN  IF r.ok /\ r.next = Len(field) + 1 /\ r.val.t = "dict"
           /\ \E k \in 1..Len(r.val.members) : r.val.members[k].key = key
        THEN "value" ELSE "default"

\* C9: after each derived-column step the table has the rows it had, in the same
\* order, every row has one cell per column, and the derived entry of row i is the
\* extraction of the source cell of row i.
C9_DerivedColumnPerRow ==
    df0.loaded =>
        /\ Len(df.rows) = Len(df0.rows)
        /\ \A i \in 1..Len(df.rows) :
            /\ df.rows[i].line = df0.rows[i].line
            /\ Len(df.rows[i].cells) = Len(df.columns)
        /\ (pc \in AfterTotalBalance /\ HasCol(df0, POST_TRANSACTION_ACCOUNT_BALANCES)) =>
            /\ HasCol(df, total_balance)
            /\ \A i \in 1..Len(df.rows) :
                /\ Column(df, total_balance)[i]
                     = parse_json_column(Column(df0, POST_TRANSACTION_ACCOUNT_BALANCES)[i]).val
                /\ Expect(df.rows[i].line, 5, "total_balance") = "default"
                     => Column(df, total_balance)[i] = PyNone
        /\ (pc \in AfterCardAcceptor /\ HasCol(df0, Unnamed_7)) =>
            /\ HasCol(df, card_acceptor)
            /\ \A i \in 1..Len(df.rows) :
                /\ Column(df, card_acceptor)[i]
                     = parse_unnamed_7(Column(df0, Unnamed_7)[i]).val
                /\ Expect(df.rows[i].line, 8, "card_acceptor") = "default"
                     => Column(df, card_acceptor)[i] = Unknown

\* a valid cell above an invalid one: the value, then the default
C9_Witness ==
    /\ pc = "preview"
    /\ Len(df.rows) = 2
    /\ HasCol(df, total_balance) /\ HasCol(df, card_acceptor)
    /\ Column(df, total_balance) = <<PyInt(1), PyNone>>
    /\ Column(df, card_acceptor) = <<PyStr(W("x")), Unknown>>

Section4Failed == Shown(4, "error")

\* a BOOKING_DATE cell that pd.to_datetime cannot convert
BadDate ==
    /\ HasCol(df0, BOOKING_DATE)
    /\ \E i \in 1..Len(df0.rows) :
            LET c == Column(df0, BOOKING_DATE)[i]
            IN  c.t = "str" /\ c.toks \notin { W(d) : d \in Dates }

====
